---- MODULE Spec2Model ----
(***************************************************************************)
(* Team Hub (src/App.jsx): several browser clients share one Firestore     *)
(* "players" collection and one "team settings" document.  Each client     *)
(* signs in, makes sure it owns a profile, listens to both with snapshot   *)
(* listeners, and lets its user edit the own profile, the administrator    *)
(* list and the coach's message.                                           *)
(*                                                                         *)
(* Texts (user ids, names, inputs) are sequences of one-character strings, *)
(* so that trim, substring and parseInt are computed on them; a literal of *)
(* the source that no code looks inside is kept as a single symbol.        *)
(***************************************************************************)
EXTENDS Integers, Sequences, FiniteSets, TLC

\* ---------------------------------------------------------------- bounds
\* Sign-outs, openings of a profile, profile edits, administrator changes and
\* message saves that the users perform in one behaviour.
MaxSignOuts == 1
MaxSelects == 1
MaxEdits == 1
MaxAdminOps == 3
MaxSaves == 1

\* ------------------------------------------------------- the participants
Clients == {"c1", "c2"}

\* Identities the Identity Provider hands out.
UidSeq == << <<"u","i","d","A","1">>, <<"u","i","d","B","2">> >>
Uids == {UidSeq[k] : k \in 1..Len(UidSeq)}

\* useState(null): no identity yet (null and '' are both falsy).
NoUser == <<>>

\* The two placeholder identities of the source.
ANONYMOUS == <<"a","n","o","n","y","m","o","u","s">>
MOCK_USER == <<"m","o","c","k","-","u","s","e","r">>

\* ------------------------------------------------------------ text helpers
WhiteSpace == {" "}

Min(a, b) == IF a < b THEN a ELSE b

\* String.prototype.substring(a, b) for 0 <= a <= b.
Substring(s, a, b) == SubSeq(s, a + 1, Min(b, Len(s)))

RECURSIVE TrimStart(_)
TrimStart(s) ==
    IF s # <<>> /\ Head(s) \in WhiteSpace THEN TrimStart(Tail(s)) ELSE s

RECURSIVE TrimEnd(_)
TrimEnd(s) ==
    IF s # <<>> /\ s[Len(s)] \in WhiteSpace
    THEN TrimEnd(SubSeq(s, 1, Len(s) - 1))
    ELSE s

\* String.prototype.trim
Trim(s) == TrimEnd(TrimStart(s))

DigitVal ==
    [d \in {"0","1","2","3","4","5","6","7","8","9"} |->
        CASE d = "0" -> 0 [] d = "1" -> 1 [] d = "2" -> 2 [] d = "3" -> 3
          [] d = "4" -> 4 [] d = "5" -> 5 [] d = "6" -> 6 [] d = "7" -> 7
          [] d = "8" -> 8 [] d = "9" -> 9]

RECURSIVE DigitPrefix(_)
DigitPrefix(s) ==
    IF s # <<>> /\ Head(s) \in DOMAIN DigitVal
    THEN <<Head(s)>> \o DigitPrefix(Tail(s))
    ELSE <<>>

RECURSIVE DigitsValue(_)
DigitsValue(ds) ==
    IF ds = <<>> THEN 0
    ELSE 10 * DigitsValue(SubSeq(ds, 1, Len(ds) - 1)) + DigitVal[ds[Len(ds)]]

\* The result of parseInt: a number, or NaN.
NaN == [isNaN |-> TRUE, n |-> 0]
Num(n) == [isNaN |-> FALSE, n |-> n]

\* parseInt(s, 10): leading white space is skipped, then an optional sign,
\* then the longest run of digits; what follows the digits is ignored, and
\* no digit at all gives NaN.
ParseInt(s) ==
    LET t == TrimStart(s)
        signed == t # <<>> /\ Head(t) \in {"+", "-"}
        body == IF signed THEN Tail(t) ELSE t
        ds == DigitPrefix(body)
    IN  IF ds = <<>> THEN NaN
        ELSE IF signed /\ Head(t) = "-" THEN Num(0 - DigitsValue(ds))
        ELSE Num(DigitsValue(ds))

\* A number as the text String(n) of it (n >= 0), as an <input> holds it.
DigitChar(k) == CHOOSE d \in DOMAIN DigitVal : DigitVal[d] = k

RECURSIVE NumberText(_)
NumberText(n) ==
    IF n < 10 THEN <<DigitChar(n)>>
    ELSE NumberText(n \div 10) \o <<DigitChar(n % 10)>>

\* Array.prototype.includes
Includes(arr, x) == \E i \in 1..Len(arr) : arr[i] = x

\* A push in place of a union: x is appended whether the array holds it or
\* not.
ArrayPush(arr, x) == Append(arr, x)

\* arrayUnion(x) of Firestore: x is appended unless the array holds it.
ArrayUnion(arr, x) == IF Includes(arr, x) THEN arr ELSE Append(arr, x)

\* A splice(indexOf(x), 1) in place of a removal: with x not in the array
\* the index is -1 and the last element goes.
ArraySplice(arr, x) ==
    IF Includes(arr, x)
    THEN LET first == CHOOSE i \in 1..Len(arr) :
                         arr[i] = x /\ \A j \in 1..(i - 1) : arr[j] # x
         IN  SubSeq(arr, 1, first - 1) \o SubSeq(arr, first + 1, Len(arr))
    ELSE SubSeq(arr, 1, Len(arr) - 1)

\* arrayRemove(x) of Firestore: every occurrence of x is taken out.
RECURSIVE ArrayRemove(_, _)
ArrayRemove(arr, x) ==
    IF arr = <<>> THEN <<>>
    ELSE IF Head(arr) = x THEN ArrayRemove(Tail(arr), x)
    ELSE <<Head(arr)>> \o ArrayRemove(Tail(arr), x)

Range(seq) == {seq[i] : i \in 1..Len(seq)}

\* ------------------------------------------------- constants of the source
ADMIN_IDS_FIELD == "admin_user_ids"

\* MOCK_PLAYERS
MOCK_PLAYERS ==
    << [name |-> <<"Alex Johnson">>, jerseyNumber |-> 23,
        headshotUrl |-> <<"https://placehold.co/100x100/1e40af/ffffff?text=AJ">>,
        role |-> "Captain"],
       [name |-> <<"Maria Garcia">>, jerseyNumber |-> 11,
        headshotUrl |-> <<"https://placehold.co/100x100/1d4ed8/ffffff?text=MG">>,
        role |-> "Forward"],
       [name |-> <<"Sam Chen">>, jerseyNumber |-> 88,
        headshotUrl |-> <<"https://placehold.co/100x100/3b82f6/ffffff?text=SC">>,
        role |-> "Defense"] >>

\* INITIAL_HUB_DATA; its timestamp is the time the module was loaded, the
\* origin of the model's clock.
INITIAL_HUB_DATA ==
    [opponent |-> "The Go-Getters (Initial Seed)",
     dateTime |-> "Friday, October 4th at 7:00 PM",
     totalPlayers |-> 3,
     captains |-> 1,
     jerseyColor |-> "Emerald Green",
     coachsMessage |-> <<"Welcome to the unified Team Hub! ...">>,
     timestamp |-> 0]

\* ------------------------------------------------------ documents, writes
\* { ...d, ...fields }: the fields given replace or extend those of d.
MergeFields(d, fields) ==
    [k \in DOMAIN d \cup DOMAIN fields |->
        IF k \in DOMAIN fields THEN fields[k] ELSE d[k]]

\* A first profile whose id field is the user's identity and whose jersey
\* number is 0.
NewPlayerIdOfUser(docId, uid) ==
    [docId |-> docId,
     id |-> uid,
     userId |-> uid,
     name |-> <<"N","e","w"," ","R","e","c","r","u","i","t"," ">>
                  \o Substring(uid, 0, 4),
     jerseyNumber |-> 0,
     headshotUrl |-> <<"https://placehold.co/100x100/60a5fa/ffffff?text=">>
                         \o Substring(uid, 0, 2),
     role |-> "New Recruit"]

\* The profile a first contact writes (newPlayer); docId is newPlayerRef.id.
NewPlayer(docId, uid) ==
    [docId |-> docId,
     id |-> docId,
     userId |-> uid,
     name |-> <<"N","e","w"," ","R","e","c","r","u","i","t"," ">>
                  \o Substring(uid, 0, 4),
     jerseyNumber |-> 99,
     headshotUrl |-> <<"https://placehold.co/100x100/60a5fa/ffffff?text=">>
                         \o Substring(uid, 0, 2),
     role |-> "New Recruit"]

\* mock-${index}-${random}: the identifier of an example profile.
MockPlayerId(index, rnd) ==
    <<"m","o","c","k","-">> \o NumberText(index) \o <<"-", rnd>>

\* { ...player, userId: mockPlayerId, id: mockPlayerId } at doc mockPlayerId
MockPlayerDoc(index, rnd) ==
    LET player == MOCK_PLAYERS[index + 1]
        mockPlayerId == MockPlayerId(index, rnd)
    IN  [docId |-> mockPlayerId,
         id |-> mockPlayerId,
         userId |-> mockPlayerId,
         name |-> player.name,
         jerseyNumber |-> player.jerseyNumber,
         headshotUrl |-> player.headshotUrl,
         role |-> player.role]

\* { ...INITIAL_HUB_DATA, [ADMIN_IDS_FIELD]: [userId] }
SeedHubData(uid) ==
    MergeFields(INITIAL_HUB_DATA, [admin_user_ids |-> <<uid>>])

\* setDoc(ref, doc) on the players collection: creates or replaces.
SetPlayerDoc(coll, doc) == {d \in coll : d.docId # doc.docId} \cup {doc}

\* updateDoc(ref, fields) on the players collection; no document, no change
\* (the promise rejects).
UpdatePlayerDoc(coll, docId, fields) ==
    {IF d.docId = docId THEN MergeFields(d, fields) ELSE d : d \in coll}

\* { id: doc.id, ...doc.data() }: what the roster listener makes of a
\* document; the data's own id field, written last, is the one kept.
SnapshotPlayer(d) ==
    [id |-> IF "id" \in DOMAIN d THEN d.id ELSE d.docId,
     userId |-> d.userId,
     name |-> d.name,
     jerseyNumber |-> d.jerseyNumber,
     headshotUrl |-> d.headshotUrl,
     role |-> d.role]

\* useState(null) for selectedPlayer: no profile selected.
NoPlayer ==
    [id |-> <<>>, userId |-> <<>>, name |-> <<>>, jerseyNumber |-> 0,
     headshotUrl |-> <<>>, role |-> ""]

\* data[ADMIN_IDS_FIELD] || []
AdminIdsOf(data) ==
    IF ADMIN_IDS_FIELD \in DOMAIN data THEN data[ADMIN_IDS_FIELD] ELSE <<>>

\* ------------------------------------------------------------------ state
VARIABLES
    playersColl,    \* store: the documents of the players collection
    hubDoc,         \* store: the settings document, {} while it is absent
    clock,          \* the time, as the number of timestamps taken so far
    currentUser,    \* Identity Provider: firebaseAuth.currentUser of a client
    authPc,         \* where a client's authentication effect stands
    db,             \* a client's db state (TRUE once set)
    userId,         \* a client's userId state
    isAuthReady,    \* a client's isAuthReady state
    seedRuns,       \* a client's runs of ensureAdminAndSeed still under way
    seedLog,        \* the runs of ensureAdminAndSeed that have ended
    subs,           \* the snapshot listeners now attached
    dirty,          \* the listeners with a snapshot still to deliver
    players,        \* a client's players state (the roster view)
    adminIds,       \* a client's adminIds state
    hubData,        \* a client's hubData state
    selectedPlayer, \* a client's selectedPlayer state
    isDetailOpen,   \* a client's isDetailOpen state
    pending,        \* a client's handlers waiting for their write to settle
    used,           \* how much of each bound the behaviour has used
    op              \* the operation last performed, with what it issued

vars == <<playersColl, hubDoc, clock, currentUser, authPc, db, userId,
          isAuthReady, seedRuns, seedLog, subs, dirty, players, adminIds, hubData,
          selectedPlayer, isDetailOpen, pending, used, op>>

storeVars == <<playersColl, hubDoc, clock>>
authVars == <<currentUser, authPc, db, userId, isAuthReady>>
viewVars == <<players, adminIds, hubData>>
detailVars == <<selectedPlayer, isDetailOpen>>

\* const isAdmin = adminIds.includes(userId)
isAdmin(c) == Includes(adminIds[c], userId[c])

\* The administrator of a settings document made before the first client
\* starts.
FirstAdmin == <<"u","i","d","A","1">>

\* No operation of a user: a step of the environment or of a continuation.
Quiet == [kind |-> "none"]

\* The store when the first client starts: no profile, and either no settings
\* document or the one line 122 writes, for some first administrator.
Init ==
    /\ playersColl = {}
    /\ hubDoc \in {{}, {SeedHubData(FirstAdmin)}}
    /\ clock = 0
    /\ currentUser = [c \in Clients |-> NoUser]
    /\ authPc = [c \in Clients |-> "start"]
    /\ db = [c \in Clients |-> FALSE]
    /\ userId = [c \in Clients |-> NoUser]
    /\ isAuthReady = [c \in Clients |-> FALSE]
    /\ seedRuns = [c \in Clients |-> {}]
    /\ seedLog = {}
    /\ subs = {}
    /\ dirty = {}
    /\ players = [c \in Clients |-> {}]
    /\ adminIds = [c \in Clients |-> <<>>]
    /\ hubData = [c \in Clients |-> INITIAL_HUB_DATA]
    /\ selectedPlayer = [c \in Clients |-> NoPlayer]
    /\ isDetailOpen = [c \in Clients |-> FALSE]
    /\ pending = [c \in Clients |-> {}]
    /\ used = [signOuts |-> 0, selects |-> 0, edits |-> 0, adminOps |-> 0,
               saves |-> 0]
    /\ op = Quiet

\* ------------------------------------------------------- shared machinery
\* A store that notifies no listener of a change.
ListenersNone(ss, kind) == {}

\* The listeners of one kind now attached, which a change of the store leaves
\* with a snapshot to deliver.
Listeners(ss, kind) == {s \in ss : s.kind = kind}

\* PlayerDetail, CoachMessageEditor and AdminPanel are components declared
\* inside App: every render of App mounts them anew, with fresh local state
\* (isUpdating false).  A handler still waiting for its write then belongs to
\* an unmounted instance.
Unmounted(ps) == {[e EXCEPT !.mounted = FALSE] : e \in ps}

\* isUpdating of the mounted instance of a component.
isUpdating(c, comp) == \E e \in pending[c] : e.comp = comp /\ e.mounted

Rerender(c) == pending' = [pending EXCEPT ![c] = Unmounted(pending[c])]

\* newPlayerRef = doc(playersCollectionRef): an identifier no document has or
\* has had, here made of the client and of the number of sign-outs before the
\* run began (a client begins at most one run between two sign-outs).
AutoId(c, r) == <<"auto-", c, "-">> \o NumberText(r.epoch)

\* A cleanup that detaches nothing.
EffectCleanupNone(c, ss) == ss

\* The cleanup the data effect returned at its last run: unsubscribePlayers
\* and unsubscribeHub of the two listeners that run attached.
EffectCleanup(c, ss) == {s \in ss : ~(s.c = c /\ s.u = userId[c])}

\* The data effect (useEffect on [db, isAuthReady, userId]) after a render that
\* set db, isAuthReady and userId of client c to the values given: the previous
\* run's cleanup, and unless a dependency is still falsy, a new run of
\* ensureAdminAndSeed and two new listeners, each owed its first snapshot.
DataEffect(c, dbN, readyN, uidN) ==
    LET changed == <<dbN, readyN, uidN>> # <<db[c], isAuthReady[c], userId[c]>>
        kept == EffectCleanup(c, subs)
        fresh == {[c |-> c, kind |-> k, u |-> uidN] : k \in {"roster", "hub"}}
    IN  IF ~changed
        THEN UNCHANGED <<seedRuns, subs, dirty>>
        ELSE IF ~dbN \/ ~readyN \/ uidN = NoUser
        THEN /\ subs' = kept
             /\ dirty' = dirty \cap kept
             /\ UNCHANGED seedRuns
        ELSE /\ subs' = kept \cup fresh
             /\ dirty' = (dirty \cap kept) \cup fresh
             /\ seedRuns' = [seedRuns EXCEPT ![c] =
                    @ \cup {[u |-> uidN, pc |-> "query", epoch |-> used.signOuts,
                             emptyBefore |-> playersColl = {},
                             noSettings |-> hubDoc = {}]}]

\* ------------------------------------------- 1. initialization and sign-in
\* firebaseAuth.currentUser?.uid || 'anonymous'
UidOrAnonymous(user) == IF user # NoUser THEN user ELSE ANONYMOUS

\* The callback given to onAuthStateChanged, called with the provider's user
\* in a client whose db state is dbN.  With no user it asks for a session
\* (custom token or anonymous) and waits; with a user it sets userId and
\* isAuthReady, which is also all that the waiting call does when it resumes
\* after a sign-in.
AuthCallback(c, user, dbN) ==
    IF user = NoUser
    THEN /\ authPc' = [authPc EXCEPT ![c] = "signingIn"]
         /\ DataEffect(c, dbN, isAuthReady[c], userId[c])
         /\ UNCHANGED <<userId, isAuthReady>>
    ELSE /\ authPc' = [authPc EXCEPT ![c] = "idle"]
         /\ userId' = [userId EXCEPT ![c] = UidOrAnonymous(user)]
         /\ isAuthReady' = [isAuthReady EXCEPT ![c] = TRUE]
         /\ DataEffect(c, dbN, TRUE, UidOrAnonymous(user))

\* The catch block of the first effect.
CatchInitError(c) ==
    /\ authPc' = [authPc EXCEPT ![c] = "initFailed"]
    /\ isAuthReady' = [isAuthReady EXCEPT ![c] = TRUE]
    /\ userId' = [userId EXCEPT ![c] = MOCK_USER]
    /\ DataEffect(c, db[c], TRUE, MOCK_USER)

\* The first effect, when nothing throws: db and auth are set and
\* onAuthStateChanged registers the callback, which the provider calls with
\* its current user.
InitializeFirebase(c) ==
    /\ authPc[c] = "start"
    /\ db' = [db EXCEPT ![c] = TRUE]
    /\ AuthCallback(c, currentUser[c], TRUE)
    /\ Rerender(c)
    /\ op' = Quiet
    /\ UNCHANGED <<storeVars, seedLog, currentUser, viewVars, detailVars, used>>

\* The first effect, when initializeApp, getFirestore or getAuth throws: db
\* stays null and the catch block sets the mock identity.
InitializeFirebaseThrows(c) ==
    /\ authPc[c] = "start"
    /\ CatchInitError(c)
    /\ Rerender(c)
    /\ op' = Quiet
    /\ UNCHANGED <<storeVars, seedLog, currentUser, db, viewVars, detailVars, used>>

\* The identities that occur in the store or in a session.  An identity that
\* occurs nowhere is like any other such, so the provider's choice of a new
\* one is taken to be the first of UidSeq not in use.
InUse ==
    {currentUser[c] : c \in Clients} \cup {userId[c] : c \in Clients}
        \cup {d.userId : d \in playersColl}
        \cup UNION {Range(AdminIdsOf(data)) : data \in hubDoc}
        \cup UNION {{r.u : r \in seedRuns[c]} : c \in Clients}

Issuable(u) ==
    \/ u \in InUse
    \/ \E k \in 1..Len(UidSeq) :
          /\ u = UidSeq[k]
          /\ \A j \in 1..(k - 1) : UidSeq[j] \in InUse

\* signInWithCustomToken / signInAnonymously succeeds: the provider has a user
\* and the callback runs for it.
SignInResolves(c, u) ==
    /\ authPc[c] = "signingIn"
    /\ u \in Uids /\ Issuable(u)
    /\ currentUser' = [currentUser EXCEPT ![c] = u]
    /\ AuthCallback(c, u, db[c])
    /\ Rerender(c)
    /\ op' = Quiet
    /\ UNCHANGED <<storeVars, seedLog, db, viewVars, detailVars, used>>

\* What the callback does when its sign-in request is rejected: the rejection
\* leaves the async callback at the await, uncaught, so lines 83-84 never run.
SignInRejected(c) == UNCHANGED <<userId, isAuthReady>>

\* The sign-in request fails (provider unreachable, request refused).  Nothing
\* calls the callback again, the provider's user being unchanged.
SignInRejects(c) ==
    /\ authPc[c] = "signingIn"
    /\ authPc' = [authPc EXCEPT ![c] = "rejected"]
    /\ SignInRejected(c)
    /\ op' = Quiet
    /\ UNCHANGED <<storeVars, currentUser, db, seedRuns, subs, dirty,
                   seedLog, viewVars, detailVars, pending, used>>

\* The Sign Out button of the roster list, auth && signOut(auth): the provider
\* drops the user and the callback runs for null.
SignOut(c) ==
    /\ isAuthReady[c] /\ db[c] /\ ~isDetailOpen[c]
    /\ authPc[c] = "idle"
    /\ used.signOuts < MaxSignOuts
    /\ used' = [used EXCEPT !.signOuts = @ + 1]
    /\ currentUser' = [currentUser EXCEPT ![c] = NoUser]
    /\ AuthCallback(c, NoUser, db[c])
    /\ op' = Quiet
    /\ UNCHANGED <<storeVars, seedLog, db, viewVars, detailVars, pending>>

\* -------------------------------------------------- 2. ensureAdminAndSeed
\* The random tails Math.random() gives the identifiers of example profiles.
RandomTails == {"k3x9q2a"}

\* The run r of client c moves on to pc, or ends; a run that has ended is
\* kept in seedLog with how it ended and what the store held when it began.
Continue(c, r, pc) ==
    /\ seedRuns' = [seedRuns EXCEPT ![c] = (@ \ {r}) \cup {[r EXCEPT !.pc = pc]}]
    /\ UNCHANGED seedLog

Finish(c, r, outcome) ==
    /\ seedRuns' = [seedRuns EXCEPT ![c] = @ \ {r}]
    /\ seedLog' = seedLog \cup
          {[c |-> c, u |-> r.u, outcome |-> outcome,
            emptyBefore |-> r.emptyBefore, noSettings |-> r.noSettings]}
    /\ op' = [kind |-> "seedDone", c |-> c, u |-> r.u, outcome |-> outcome,
              emptyBefore |-> r.emptyBefore]

\* A query that finds nothing.
OwnDocsNone(coll, uid) == {}

\* getDocs(query(playersCollectionRef, where('userId', '==', userId)))
OwnDocs(coll, uid) == {d \in coll : d.userId = uid}

\* userDocs.empty decides whether the run goes on to create a profile.
SeedQuery(c, r) ==
    /\ r \in seedRuns[c] /\ r.pc = "query"
    /\ IF OwnDocs(playersColl, r.u) = {}
       THEN Continue(c, r, "create") /\ op' = Quiet
       ELSE Finish(c, r, "returned")
    /\ UNCHANGED <<storeVars, authVars, subs, dirty, viewVars,
                   detailVars, pending, used>>

\* await setDoc(newPlayerRef, newPlayer)
SeedCreate(c, r) ==
    /\ r \in seedRuns[c] /\ r.pc = "create"
    /\ playersColl' = SetPlayerDoc(playersColl, NewPlayer(AutoId(c, r), r.u))
    /\ dirty' = dirty \cup Listeners(subs, "roster")
    /\ Continue(c, r, "probe")
    /\ op' = Quiet
    /\ UNCHANGED <<hubDoc, clock, authVars, subs, viewVars,
                   detailVars, pending, used>>

\* A probe that always finds the collection empty.
ProbeEmptyAlways(coll) == TRUE

\* const hubDoc = await getDocs(playersCollectionRef); hubDoc.empty
ProbeEmpty(coll) == coll = {}

\* The three example profiles of MOCK_PLAYERS.forEach.
MockDocs(rnd) == {MockPlayerDoc(index, rnd) : index \in 0..2}

RECURSIVE SetPlayerDocs(_, _)
SetPlayerDocs(coll, docs) ==
    IF docs = {} THEN coll
    ELSE LET d == CHOOSE x \in docs : TRUE
         IN  SetPlayerDocs(SetPlayerDoc(coll, d), docs \ {d})

\* Steps 2 and 3 of the run: the probe of the players collection, and when it
\* is empty the settings document with this user as administrator and the
\* example profiles.
SeedProbe(c, r) ==
    /\ r \in seedRuns[c] /\ r.pc = "probe"
    /\ IF ProbeEmpty(playersColl)
       THEN /\ hubDoc' = {SeedHubData(r.u)}
            /\ \E rnd \in RandomTails :
                  playersColl' = SetPlayerDocs(playersColl, MockDocs(rnd))
            /\ dirty' = dirty \cup subs
            /\ Finish(c, r, "seeded")
       ELSE /\ Finish(c, r, "joined")
            /\ UNCHANGED <<playersColl, hubDoc, dirty>>
    /\ UNCHANGED <<clock, authVars, subs, viewVars, detailVars,
                   pending, used>>

\* What the run does with a rejected store call: the catch block logs it and
\* the run is over.
CatchSeedError(c, r) == Finish(c, r, "caught")

\* A getDocs or setDoc of the run is rejected by the store.
SeedStoreError(c, r) ==
    /\ r \in seedRuns[c]
    /\ CatchSeedError(c, r)
    /\ UNCHANGED <<storeVars, authVars, subs, dirty, viewVars,
                   detailVars, pending, used>>

\* ------------------------------------------------------ snapshot listeners
\* The roster listener's callback: setPlayers(snapshot.docs.map(...)).
RosterView(coll) == {SnapshotPlayer(d) : d \in coll}

RosterSnapshot(s) ==
    /\ s \in subs /\ s \in dirty /\ s.kind = "roster"
    /\ players' = [players EXCEPT ![s.c] = RosterView(playersColl)]
    /\ dirty' = dirty \ {s}
    /\ Rerender(s.c)
    /\ op' = [kind |-> "rosterSnapshot", c |-> s.c, u |-> s.u]
    /\ UNCHANGED <<storeVars, authVars, seedRuns, subs, seedLog, adminIds,
                   hubData, detailVars, used>>

\* A listener without its else branch: an absent document leaves the
\* adminIds state as it was.
HubAdminIdsNoElse(docs, prev) ==
    IF docs # {} THEN AdminIdsOf(CHOOSE data \in docs : TRUE) ELSE prev

\* The settings listener's callback, for a snapshot of the document (docs is
\* {} when docSnapshot.exists() is false): the adminIds state after it, prev
\* before it, and the value given to setHubData.
HubAdminIds(docs, prev) ==
    IF docs # {} THEN AdminIdsOf(CHOOSE data \in docs : TRUE) ELSE <<>>

HubDataOf(docs) ==
    IF docs # {} THEN CHOOSE data \in docs : TRUE ELSE INITIAL_HUB_DATA

HubSnapshot(s) ==
    /\ s \in subs /\ s \in dirty /\ s.kind = "hub"
    /\ adminIds' = [adminIds EXCEPT ![s.c] = HubAdminIds(hubDoc, @)]
    /\ hubData' = [hubData EXCEPT ![s.c] = HubDataOf(hubDoc)]
    /\ dirty' = dirty \ {s}
    /\ Rerender(s.c)
    /\ op' = [kind |-> "hubSnapshot", c |-> s.c, u |-> s.u,
              exists |-> hubDoc # {}, wasAdmin |-> isAdmin(s.c)]
    /\ UNCHANGED <<storeVars, authVars, seedRuns, subs, seedLog, players,
                   detailVars, used>>

\* The settings document is deleted in the store (nothing in the client does
\* it; the listener's else branch is there for the snapshot that follows).
SettingsDeleted ==
    /\ hubDoc # {}
    /\ hubDoc' = {}
    /\ dirty' = dirty \cup Listeners(subs, "hub")
    /\ op' = Quiet
    /\ UNCHANGED <<playersColl, clock, authVars, seedRuns, seedLog, subs,
                   viewVars, detailVars, pending, used>>

\* A profile is deleted in the store (nothing in the client does it; the
\* else branch of handleUpdateProfile is there for the view that follows).
ProfileDeleted(d) ==
    /\ d \in playersColl
    /\ playersColl' = playersColl \ {d}
    /\ dirty' = dirty \cup Listeners(subs, "roster")
    /\ op' = Quiet
    /\ UNCHANGED <<hubDoc, clock, authVars, seedRuns, seedLog, subs,
                   viewVars, detailVars, pending, used>>

\* An error callback that detaches its listener and empties the roster.
SnapshotErrorDetaches(s) ==
    /\ s \in subs
    /\ subs' = subs \ {s}
    /\ dirty' = dirty \ {s}
    /\ players' = [players EXCEPT ![s.c] = {}]
    /\ op' = [kind |-> "snapshotError", sub |-> s]
    /\ UNCHANGED <<storeVars, authVars, seedRuns, seedLog, adminIds, hubData,
                   detailVars, pending, used>>

\* The error callback of a listener: console.error, and nothing else.
SnapshotError(s) ==
    /\ s \in subs
    /\ op' = [kind |-> "snapshotError", sub |-> s]
    /\ UNCHANGED <<storeVars, authVars, seedRuns, subs, dirty, seedLog,
                   viewVars, detailVars, pending, used>>

\* ------------------------------------------------------------- navigation
\* The button of a PlayerCard in the roster list.
SelectPlayer(c, p) ==
    /\ isAuthReady[c] /\ ~isDetailOpen[c]
    /\ p \in players[c]
    /\ used.selects < MaxSelects
    /\ used' = [used EXCEPT !.selects = @ + 1]
    /\ selectedPlayer' = [selectedPlayer EXCEPT ![c] = p]
    /\ isDetailOpen' = [isDetailOpen EXCEPT ![c] = TRUE]
    /\ Rerender(c)
    /\ op' = Quiet
    /\ UNCHANGED <<storeVars, authVars, seedRuns, subs, seedLog, dirty,
                   viewVars>>

\* "Back to Roster" of the detail view.
BackToRoster(c) ==
    /\ isAuthReady[c] /\ isDetailOpen[c]
    /\ isDetailOpen' = [isDetailOpen EXCEPT ![c] = FALSE]
    /\ Rerender(c)
    /\ op' = Quiet
    /\ UNCHANGED <<storeVars, authVars, seedRuns, subs, seedLog, dirty, viewVars,
                   selectedPlayer, used>>

\* ---------------------------------------------------------- profile edits
\* What the jersey field (type="number": empty for any text that is no
\* number) and the name field may hold at a click, and the colours
\* Math.random() may give a new head shot.
JerseyInputs ==
    { <<>>, <<"-","1">>, <<"0">>, <<"7",".","5">>, <<"9","9">>,
      <<"1","0","0">>, <<"1","5","0">> }

NameInputs == { <<>>, <<" ">>, <<" ","A"," ">>, <<" ","A","l"," ">> }

PhotoColors == {"a1b2c3"}

\* const isCurrentUser = selectedPlayer.userId === userId, of a rendered
\* PlayerDetail: the editor of the own profile is on the screen.
EditorShown(c) ==
    /\ isAuthReady[c] /\ isDetailOpen[c]
    /\ selectedPlayer[c] # NoPlayer
    /\ selectedPlayer[c].userId = userId[c]

\* A find whose test is always true: any profile of the view is found.
FindAny(c) == players[c]

\* players.find(p => p.userId === userId): the view is unordered, so any of
\* the profiles of this user may be the one found.
FindOwn(c) == {p \in players[c] : p.userId = userId[c]}

\* handleUpdateProfile(updates), followed by what its caller does when it
\* returns: setSelectedPlayer(p => ({...p, ...updates})).  With no db, no
\* userId or no own profile in the view nothing is awaited and the caller
\* goes on at once; else updateDoc is issued for the profile found (the store
\* applies it or rejects it) and the caller waits for it to settle.
HandleUpdateProfile(c, kind, input, updates) ==
    IF ~db[c] \/ userId[c] = NoUser \/ FindOwn(c) = {}
    THEN /\ selectedPlayer' =
               [selectedPlayer EXCEPT ![c] = MergeFields(@, updates)]
         /\ pending' = [pending EXCEPT ![c] = Unmounted(@)]
         /\ op' = [kind |-> kind, c |-> c, input |-> input, disabled |-> FALSE,
                   found |-> FALSE, writes |-> <<>>]
         /\ UNCHANGED <<playersColl, dirty, used>>
    ELSE /\ used.edits < MaxEdits
         /\ used' = [used EXCEPT !.edits = @ + 1]
         /\ \E userDoc \in FindOwn(c), ok \in BOOLEAN :
               /\ playersColl' =
                     IF ok THEN UpdatePlayerDoc(playersColl, userDoc.id, updates)
                     ELSE playersColl
               /\ dirty' = IF playersColl' # playersColl
                           THEN dirty \cup Listeners(subs, "roster")
                           ELSE dirty
               /\ op' = [kind |-> kind, c |-> c, input |-> input,
                         disabled |-> FALSE, found |-> TRUE,
                         writes |-> << [docId |-> userDoc.id,
                                        fields |-> updates, ok |-> ok] >>]
         /\ pending' = [pending EXCEPT ![c] =
               @ \cup {[comp |-> "PlayerDetail", kind |-> kind,
                        fields |-> updates, mounted |-> TRUE]}]
         /\ UNCHANGED selectedPlayer

\* A click that changes nothing: on a disabled button, or rejected by the
\* handler's validation (console.warn).
NoEdit(c, kind, input, disabled) ==
    /\ op' = [kind |-> kind, c |-> c, input |-> input, disabled |-> disabled,
              found |-> FALSE, writes |-> <<>>]
    /\ UNCHANGED <<playersColl, dirty, used, selectedPlayer, pending>>

\* disabled={...} of the "Save #" button
JerseyDisabled(c, input) ==
    \/ isUpdating(c, "PlayerDetail")
    \/ ParseInt(input) = Num(selectedPlayer[c].jerseyNumber)
    \/ input = <<>>
    \/ (~ParseInt(input).isNaN /\ ParseInt(input).n < 0)

\* Two slips of the range check: 0 left out, 100 let in.
JerseyValidFromOne(newJersey) ==
    ~newJersey.isNaN /\ newJersey.n > 0 /\ newJersey.n < 100

JerseyValidUpTo100(newJersey) ==
    ~newJersey.isNaN /\ newJersey.n >= 0 /\ newJersey.n <= 100

\* newJersey >= 0 && newJersey < 100 (false for NaN)
JerseyValid(newJersey) ==
    ~newJersey.isNaN /\ newJersey.n >= 0 /\ newJersey.n < 100

\* "Save #" with the given text in the field: handleJerseyUpdate.
HandleJerseyUpdate(c, input) ==
    /\ EditorShown(c)
    /\ input \in JerseyInputs
    /\ LET newJersey == ParseInt(input)
       IN  IF JerseyDisabled(c, input)
           THEN NoEdit(c, "jersey", input, TRUE)
           ELSE IF JerseyValid(newJersey)
           THEN HandleUpdateProfile(c, "jersey", input,
                                    [jerseyNumber |-> newJersey.n])
           ELSE NoEdit(c, "jersey", input, FALSE)
    /\ UNCHANGED <<hubDoc, clock, authVars, seedRuns, subs, seedLog, viewVars,
                   isDetailOpen>>

\* disabled={...} of the "Save Name" button
NameDisabled(c, input) ==
    \/ isUpdating(c, "PlayerDetail")
    \/ Trim(input) = selectedPlayer[c].name
    \/ Trim(input) = <<>>

\* newName.length > 1
NameValid(newName) == Len(newName) > 1

\* "Save Name" with the given text in the field: handleNameUpdate.
HandleNameUpdate(c, input) ==
    /\ EditorShown(c)
    /\ input \in NameInputs
    /\ LET newName == Trim(input)
       IN  IF NameDisabled(c, input)
           THEN NoEdit(c, "name", input, TRUE)
           ELSE IF NameValid(newName)
           THEN HandleUpdateProfile(c, "name", input, [name |-> newName])
           ELSE NoEdit(c, "name", input, FALSE)
    /\ UNCHANGED <<hubDoc, clock, authVars, seedRuns, subs, seedLog, viewVars,
                   isDetailOpen>>

\* https://placehold.co/100x100/${colour}/ffffff?text=${name.substring(0, 2)}
NewPhotoUrl(colour, name) ==
    <<"https://placehold.co/100x100/", colour, "/ffffff?text=">>
        \o Substring(name, 0, 2)

\* "Upload New Headshot (Mock)": handlePhotoUpload.
HandlePhotoUpload(c, colour) ==
    /\ EditorShown(c)
    /\ colour \in PhotoColors
    /\ IF isUpdating(c, "PlayerDetail")
       THEN NoEdit(c, "photo", <<colour>>, TRUE)
       ELSE HandleUpdateProfile(c, "photo", <<colour>>,
               [headshotUrl |-> NewPhotoUrl(colour, selectedPlayer[c].name)])
    /\ UNCHANGED <<hubDoc, clock, authVars, seedRuns, subs, seedLog, viewVars,
                   isDetailOpen>>

\* The write of a profile edit has settled (applied or rejected; the gateway
\* has caught a rejection): the waiting handler resumes with
\* setSelectedPlayer(p => ({...p, ...updates})) and setIsUpdating(false).
EditSettles(c, e) ==
    /\ e \in pending[c] /\ e.comp = "PlayerDetail"
    /\ selectedPlayer' = [selectedPlayer EXCEPT ![c] = MergeFields(@, e.fields)]
    /\ pending' = [pending EXCEPT ![c] = Unmounted(@ \ {e})]
    /\ op' = [kind |-> "settled", c |-> c, edit |-> e.kind, fields |-> e.fields]
    /\ UNCHANGED <<storeVars, authVars, seedRuns, subs, seedLog, dirty, viewVars,
                   isDetailOpen, used>>

\* ------------------------------------------------ administrators, message
\* Identities that own no client of the model but may be made administrators.
OtherIds == { <<"u","i","d","C","3">>, <<"u","i","d","D","4">> }

\* What an administrator may have typed into "Paste User ID to promote".
AdminInputs ==
    Uids \cup OtherIds \cup {<<" ">> \o u \o <<" ">> : u \in OtherIds}
         \cup {<<>>, <<" ">>}

\* What an administrator may have typed into the message box.
MessageInputs == { <<>>, <<" ">>, <<"G","o">>, <<" ","G","o"," ">> }

\* {isAdmin && <AdminPanel />} and {isAdmin && <button ...>} of the dashboard
AdminShown(c) == isAuthReady[c] /\ ~isDetailOpen[c] /\ isAdmin(c)

\* The data of the settings document, {} absent: a map with no field.
HubFields(docs) == IF docs # {} THEN CHOOSE data \in docs : TRUE ELSE <<>>

\* A write of the field that holds the one id and nothing else.
ApplyArrayOverwrite(docs, id) ==
    {MergeFields(data, [admin_user_ids |-> <<id>>]) : data \in docs}

\* updateDoc(settingsDocRef, { [ADMIN_IDS_FIELD]: arrayUnion(id) }) as the
\* store applies it.
ApplyArrayUnion(docs, id) ==
    {MergeFields(data, [admin_user_ids |-> ArrayUnion(AdminIdsOf(data), id)])
        : data \in docs}

\* updateDoc(settingsDocRef, { [ADMIN_IDS_FIELD]: arrayRemove(id) }) as the
\* store applies it.
ApplyArrayRemove(docs, id) ==
    {MergeFields(data, [admin_user_ids |-> ArrayRemove(AdminIdsOf(data), id)])
        : data \in docs}

\* setDoc(settingsDocRef, fields) without merge: the fields given are the
\* whole document.
ApplySetReplace(docs, fields) == {fields}

\* setDoc(settingsDocRef, fields, { merge: true }) as the store applies it.
ApplySetMerge(docs, fields) == {MergeFields(HubFields(docs), fields)}

\* An updateDoc of the settings document by client c: rejected when there is
\* no document or the store refuses it, applied to the stored value else.
\* Nothing in the client waits for the outcome.
UpdateHubDoc(c, kind, input, id, newDocs) ==
    /\ used.adminOps < MaxAdminOps
    /\ used' = [used EXCEPT !.adminOps = @ + 1]
    /\ \E ok \in BOOLEAN :
          /\ hubDoc' = IF ok /\ hubDoc # {} THEN newDocs ELSE hubDoc
          /\ op' = [kind |-> kind, c |-> c, input |-> input, disabled |-> FALSE,
                    by |-> userId[c],
                    writes |-> << [id |-> id, ok |-> ok /\ hubDoc # {},
                                   was |-> AdminIdsOf(HubFields(hubDoc)),
                                   changed |-> hubDoc' # hubDoc] >>]
    /\ dirty' = IF hubDoc' # hubDoc THEN dirty \cup Listeners(subs, "hub")
                ELSE dirty

NoAdminOp(c, kind, input, disabled) ==
    /\ op' = [kind |-> kind, c |-> c, input |-> input, disabled |-> disabled,
              by |-> userId[c], writes |-> <<>>]
    /\ UNCHANGED <<hubDoc, dirty, used>>

\* The "Add" button: handleAddAdmin(newAdminId.trim()); setNewAdminId('').
HandleAddAdmin(c, input) ==
    /\ AdminShown(c)
    /\ input \in AdminInputs
    /\ LET id == Trim(input)
       IN  IF input = <<>> \/ Includes(adminIds[c], id)
           THEN NoAdminOp(c, "addAdmin", input, TRUE)
           ELSE IF ~db[c] \/ id = <<>>
           THEN NoAdminOp(c, "addAdmin", input, FALSE)
           ELSE UpdateHubDoc(c, "addAdmin", input, id,
                             ApplyArrayUnion(hubDoc, id))
    /\ UNCHANGED <<playersColl, clock, authVars, seedRuns, subs, seedLog, viewVars,
                   detailVars, pending>>

\* A list in which every id carries a remove button.
RemovableAll(c) == Range(adminIds[c])

\* The ids of the "Current Administrators" list that carry a remove button:
\* {id !== userId && <button onClick={() => handleRemoveAdmin(id)} />}
Removable(c) == {id \in Range(adminIds[c]) : id # userId[c]}

HandleRemoveAdmin(c, id) ==
    /\ AdminShown(c)
    /\ id \in Removable(c)
    /\ IF ~db[c] \/ id = <<>>
       THEN NoAdminOp(c, "removeAdmin", id, FALSE)
       ELSE UpdateHubDoc(c, "removeAdmin", id, id, ApplyArrayRemove(hubDoc, id))
    /\ UNCHANGED <<playersColl, clock, authVars, seedRuns, subs, seedLog, viewVars,
                   detailVars, pending>>

\* disabled={isUpdating || messageInput.trim() === hubData.coachsMessage}
MessageDisabled(c, input) ==
    \/ isUpdating(c, "CoachMessageEditor")
    \/ /\ "coachsMessage" \in DOMAIN hubData[c]
       /\ Trim(input) = hubData[c].coachsMessage

\* "Save Message": handleSaveMessage.
HandleSaveMessage(c, input) ==
    /\ AdminShown(c)
    /\ input \in MessageInputs
    /\ LET newMessage == Trim(input)
       IN  IF MessageDisabled(c, input)
           THEN /\ op' = [kind |-> "saveMessage", c |-> c, input |-> input,
                          disabled |-> TRUE, by |-> userId[c], writes |-> <<>>]
                /\ UNCHANGED <<hubDoc, clock, dirty, used, pending>>
           ELSE IF Len(newMessage) = 0 \/ ~db[c]
           THEN /\ op' = [kind |-> "saveMessage", c |-> c, input |-> input,
                          disabled |-> FALSE, by |-> userId[c], writes |-> <<>>]
                /\ UNCHANGED <<hubDoc, clock, dirty, used, pending>>
           ELSE /\ used.saves < MaxSaves
                /\ used' = [used EXCEPT !.saves = @ + 1]
                /\ clock' = clock + 1
                /\ \E ok \in BOOLEAN :
                     LET fields == [coachsMessage |-> newMessage,
                                    timestamp |-> clock',
                                    lastEditor |-> userId[c]]
                     IN  /\ hubDoc' = IF ok THEN ApplySetMerge(hubDoc, fields)
                                      ELSE hubDoc
                         /\ op' = [kind |-> "saveMessage", c |-> c,
                                   input |-> input, disabled |-> FALSE,
                                   by |-> userId[c],
                                   writes |-> << [fields |-> fields,
                                                  ok |-> ok] >>]
                /\ dirty' = IF hubDoc' # hubDoc
                            THEN dirty \cup Listeners(subs, "hub") ELSE dirty
                /\ pending' = [pending EXCEPT ![c] =
                      @ \cup {[comp |-> "CoachMessageEditor", kind |-> "message",
                               fields |-> [coachsMessage |-> newMessage],
                               mounted |-> TRUE]}]
    /\ UNCHANGED <<playersColl, authVars, seedRuns, subs, seedLog, viewVars, detailVars>>

\* The setDoc of a message save has settled: setIsUpdating(false) of the
\* editor, a state of the component alone.
SaveSettles(c, e) ==
    /\ e \in pending[c] /\ e.comp = "CoachMessageEditor"
    /\ pending' = [pending EXCEPT ![c] = @ \ {e}]
    /\ op' = Quiet
    /\ UNCHANGED <<storeVars, authVars, seedRuns, subs, seedLog, dirty, viewVars,
                   detailVars, used>>

\* ------------------------------------------------------ the specification
Next ==
    \/ SettingsDeleted
    \/ \E d \in playersColl : ProfileDeleted(d)
    \/ \E c \in Clients :
        \/ InitializeFirebase(c)
        \/ InitializeFirebaseThrows(c)
        \/ \E u \in Uids : SignInResolves(c, u)
        \/ SignInRejects(c)
        \/ SignOut(c)
        \/ \E r \in seedRuns[c] :
              \/ SeedQuery(c, r)
              \/ SeedCreate(c, r)
              \/ SeedProbe(c, r)
              \/ SeedStoreError(c, r)
        \/ \E s \in subs :
              \/ RosterSnapshot(s)
              \/ HubSnapshot(s)
              \/ SnapshotError(s)
        \/ \E p \in players[c] : SelectPlayer(c, p)
        \/ BackToRoster(c)
        \/ \E input \in JerseyInputs : HandleJerseyUpdate(c, input)
        \/ \E input \in NameInputs : HandleNameUpdate(c, input)
        \/ \E colour \in PhotoColors : HandlePhotoUpload(c, colour)
        \/ \E e \in pending[c] : EditSettles(c, e)
        \/ \E e \in pending[c] : SaveSettles(c, e)
        \/ \E input \in AdminInputs : HandleAddAdmin(c, input)
        \/ \E id \in Removable(c) : HandleRemoveAdmin(c, id)
        \/ \E input \in MessageInputs : HandleSaveMessage(c, input)

Spec == Init /\ [][Next]_vars

\* Parts of the system, each with the operations of one feature.  A behaviour
\* of a part is a behaviour of Spec.

\* Start-up without failures: both effects up to the end of the seeding run.
Boot(c) ==
    \/ InitializeFirebase(c)
    \/ \E u \in Uids : SignInResolves(c, u)
    \/ \E r \in seedRuns[c] :
          \/ SeedQuery(c, r)
          \/ SeedCreate(c, r)
          \/ SeedProbe(c, r)

\* Start-up with its failures, and the listeners.
NextSeed ==
    \/ SettingsDeleted
    \/ \E c \in Clients :
        \/ Boot(c)
        \/ InitializeFirebaseThrows(c)
        \/ SignInRejects(c)
        \/ \E r \in seedRuns[c] : SeedStoreError(c, r)
        \/ \E s \in subs :
              \/ RosterSnapshot(s)
              \/ HubSnapshot(s)
              \/ SnapshotError(s)

SpecSeed == Init /\ [][NextSeed]_vars

\* The roster and the editor of the own profile, on a store that has no
\* settings document.
NextProfile ==
    \E c \in Clients :
        \/ Boot(c)
        \/ \E s \in subs : RosterSnapshot(s)
        \/ \E p \in players[c] : SelectPlayer(c, p)
        \/ BackToRoster(c)
        \/ \E input \in JerseyInputs : HandleJerseyUpdate(c, input)
        \/ \E input \in NameInputs : HandleNameUpdate(c, input)
        \/ \E colour \in PhotoColors : HandlePhotoUpload(c, colour)
        \/ \E e \in pending[c] : EditSettles(c, e)

InitProfile == Init /\ hubDoc = {}

SpecProfile == InitProfile /\ [][NextProfile]_vars

\* One client and its editor, on a store in which a profile may be deleted.
Solo == {"c1"}

NextLost ==
    \/ \E d \in playersColl : ProfileDeleted(d)
    \/ \E c \in Solo :
        \/ Boot(c)
        \/ \E s \in subs : RosterSnapshot(s)
        \/ \E p \in players[c] : SelectPlayer(c, p)
        \/ BackToRoster(c)
        \/ \E input \in JerseyInputs : HandleJerseyUpdate(c, input)
        \/ \E input \in NameInputs : HandleNameUpdate(c, input)
        \/ \E colour \in PhotoColors : HandlePhotoUpload(c, colour)
        \/ \E e \in pending[c] : EditSettles(c, e)

SpecLost == InitProfile /\ [][NextLost]_vars

\* One client through a sign-out and the sign-in that follows it.
NextSession ==
    \E c \in Solo :
        \/ Boot(c)
        \/ SignOut(c)
        \/ \E s \in subs : RosterSnapshot(s) \/ HubSnapshot(s)

SpecSession == Init /\ [][NextSession]_vars

\* Start-up of both clients and their listeners, with every snapshot that
\* is owed to an attached listener delivered in the end: the store's SDK
\* calls the callback of an attached listener for each change, and the
\* browser's event loop runs every callback that is queued.
AllSubs == [c : Clients, kind : {"roster", "hub"}, u : Uids]

NextSync ==
    \/ SettingsDeleted
    \/ \E c \in Clients :
        \/ Boot(c)
        \/ \E s \in subs : RosterSnapshot(s) \/ HubSnapshot(s)

SnapshotsDelivered ==
    \A s \in AllSubs : WF_vars(RosterSnapshot(s)) /\ WF_vars(HubSnapshot(s))

SpecSync == Init /\ [][NextSync]_vars /\ SnapshotsDelivered

\* The settings document: its listener, the administrator panel and the
\* coach's message.  The seeding runs are left where sign-in started them:
\* these operations read and write nothing that the runs touch.
NextAdmin ==
    \E c \in Clients :
        \/ InitializeFirebase(c)
        \/ \E u \in Uids : SignInResolves(c, u)
        \/ \E s \in subs : HubSnapshot(s)
        \/ \E input \in AdminInputs : HandleAddAdmin(c, input)
        \/ \E id \in Removable(c) : HandleRemoveAdmin(c, id)
        \/ \E input \in MessageInputs : HandleSaveMessage(c, input)
        \/ \E e \in pending[c] : SaveSettles(c, e)

SpecAdmin == Init /\ [][NextAdmin]_vars

\* ================================================================ claims
\* ---------------------------------------------------- seeding (SpecSeed)
\* C1: when two sessions with distinct identities have both run
\* ensureAdminAndSeed from a store that held no profile and no settings
\* document when each began, the store served every call, and both runs are
\* over, then the settings document exists and its administrator list holds
\* at least one of the two identities.
C1_ConcurrentSeedingMakesAdmin ==
    \A e1, e2 \in seedLog :
        ( /\ e1.c # e2.c /\ e1.u # e2.u
          /\ e1.emptyBefore /\ e1.noSettings
          /\ e2.emptyBefore /\ e2.noSettings
          /\ e1.outcome # "caught" /\ e2.outcome # "caught"
          /\ \A c \in Clients : seedRuns[c] = {} )
        => \E data \in hubDoc :
              Range(AdminIdsOf(data)) \cap {e1.u, e2.u} # {}

\* C2: when the only client that has started has run ensureAdminAndSeed from
\* a players collection that held no profile, and the store served every
\* call, then on completion the settings document exists with that client's
\* identity as its one administrator and the three example profiles are in
\* the collection.
C2_FirstClientSeeds ==
    \A e \in seedLog :
        ( /\ e.emptyBefore /\ e.outcome # "caught"
          /\ \A c \in Clients \ {e.c} : authPc[c] = "start" )
        => /\ \E data \in hubDoc : AdminIdsOf(data) = <<e.u>>
           /\ \E rnd \in RandomTails : MockDocs(rnd) \subseteq playersColl

\* C4: a client whose authentication effect has come to its end, with a
\* session, with an initialization error or with a rejected sign-in (after
\* which nothing calls the callback again), is ready: isAuthReady is true and
\* userId is an identity or a placeholder.
C4_BootstrapEndsReady ==
    \A c \in Clients :
        authPc[c] \in {"idle", "initFailed", "rejected"}
            => isAuthReady[c] /\ userId[c] # NoUser

\* C10: right after the settings listener has delivered a snapshot of an
\* absent document, the client's adminIds is empty and its hubData is
\* INITIAL_HUB_DATA, so that isAdmin is false whatever identity it has.
C10_AbsentSettingsNoAdmin ==
    (op.kind = "hubSnapshot" /\ ~op.exists) =>
        /\ adminIds[op.c] = <<>>
        /\ hubData[op.c] = INITIAL_HUB_DATA
        /\ ~isAdmin(op.c)
        /\ \A id \in Uids \cup OtherIds \cup {ANONYMOUS, MOCK_USER} :
              ~Includes(adminIds[op.c], id)

\* C10, its case: an administrator's client is told that the document is
\* gone, and is no administrator any more.
C10_Witness ==
    /\ op.kind = "hubSnapshot" /\ ~op.exists /\ op.wasAdmin
    /\ adminIds[op.c] = <<>> /\ userId[op.c] \in Uids

\* ------------------------------------------------ profile (SpecProfile)
\* C5: a click on the enabled "Save #" button with a text that parses to an
\* integer n of 0..99, in a client whose view holds its own profile, issues
\* exactly one write, of jerseyNumber n alone, and leaves the handler waiting
\* with that value; when the handler resumes, the client's copy of the
\* selected profile shows the value written.
C5_ValidJerseyWritesOnce ==
    /\ ( /\ op.kind = "jersey" /\ ~op.disabled
         /\ db[op.c] /\ FindOwn(op.c) # {}
         /\ ~ParseInt(op.input).isNaN /\ ParseInt(op.input).n \in 0..99 )
       => /\ Len(op.writes) = 1
          /\ op.writes[1].fields = [jerseyNumber |-> ParseInt(op.input).n]
          /\ \E e \in pending[op.c] :
                e.fields = [jerseyNumber |-> ParseInt(op.input).n]
    /\ (op.kind = "settled" /\ op.edit = "jersey")
       => selectedPlayer[op.c].jerseyNumber = op.fields.jerseyNumber

\* C5, its case: the write of 7 (typed as 7.5) was applied to the profile of
\* the client's user and the client's copy shows 7.
C5_Witness ==
    /\ op.kind = "settled" /\ op.edit = "jersey"
    /\ selectedPlayer[op.c].jerseyNumber = 7
    /\ \E d \in playersColl : d.userId = userId[op.c] /\ d.jerseyNumber = 7

\* C6: a click on "Save #" with a text that is no number, or that parses to
\* an integer outside 0..99, issues no write and changes neither the players
\* collection nor any client's roster view or selected profile.
C6_InvalidJerseyChangesNothing ==
    [][ ( /\ op'.kind = "jersey"
          /\ \/ ParseInt(op'.input).isNaN
             \/ ParseInt(op'.input).n \notin 0..99 )
        => /\ op'.writes = <<>>
           /\ playersColl' = playersColl
           /\ players' = players
           /\ selectedPlayer' = selectedPlayer ]_vars

\* C6, its case: 150 got past the button and was turned down by the handler.
C6_Witness ==
    /\ op.kind = "jersey" /\ ~op.disabled
    /\ op.input = <<"1","5","0">> /\ op.writes = <<>>
    /\ \E d \in playersColl : d.userId = userId[op.c] /\ d.jerseyNumber = 99

\* C7: a click on the enabled "Save Name" button, in a client whose view
\* holds its own profile, issues one write of the trimmed text as name if
\* the trimmed text is not empty, and no write if it is.
C7_NameAcceptedIffNonEmpty ==
    (op.kind = "name" /\ ~op.disabled /\ db[op.c] /\ FindOwn(op.c) # {}) =>
        IF Trim(op.input) # <<>>
        THEN /\ Len(op.writes) = 1
             /\ op.writes[1].fields = [name |-> Trim(op.input)]
        ELSE op.writes = <<>>

\* C13: a click on an enabled button of the editor, in a client whose view
\* holds no profile of its user, issues no write and leaves the client's
\* copy of the selected profile as it was.
C13_NotFoundChangesNothing ==
    [][ ( /\ op'.kind \in {"jersey", "name", "photo"} /\ ~op'.disabled
          /\ {p \in players[op'.c] : p.userId = userId[op'.c]} = {} )
        => /\ op'.writes = <<>>
           /\ playersColl' = playersColl
           /\ selectedPlayer' = selectedPlayer ]_vars

\* C14: the players collection holds at most one profile for a user.
C14_OneProfilePerUser ==
    \A d1, d2 \in playersColl : d1.userId = d2.userId => d1 = d2

\* C15: a client has at most one roster listener and at most one settings
\* listener attached, each attached by the effect run of the client's present
\* userId; a listener that was detached is owed no snapshot, and a snapshot is
\* only ever delivered for the listener of the present userId.
C15_OneListenerPerKind ==
    /\ \A s1, s2 \in subs : (s1.c = s2.c /\ s1.kind = s2.kind) => s1 = s2
    /\ \A s \in subs : s.u = userId[s.c] /\ isAuthReady[s.c] /\ db[s.c]
    /\ dirty \subseteq subs
    /\ op.kind \in {"rosterSnapshot", "hubSnapshot"} => op.u = userId[op.c]

\* A client that signed out and came back as another user has received the
\* roster for its new listener.
C15_Witness ==
    /\ op.kind = "rosterSnapshot"
    /\ \E e \in seedLog : e.c = op.c /\ e.u # userId[op.c]
    /\ {s.kind : s \in {t \in subs : t.c = op.c}} = {"roster", "hub"}

\* C16: the error callback of a listener leaves the roster, the administrator
\* list and the dashboard data of every client as they were, detaches no
\* listener, and leaves every snapshot that is owed to a listener owed.
C16_ErrorKeepsViewsAndListeners ==
    [][ op'.kind = "snapshotError"
        => /\ players' = players /\ adminIds' = adminIds /\ hubData' = hubData
           /\ subs' = subs /\ dirty' = dirty ]_vars

\* A roster listener reports an error while its client shows a roster and a
\* newer one is owed to it.
C16_Witness ==
    /\ op.kind = "snapshotError" /\ op.sub.kind = "roster"
    /\ op.sub \in subs /\ op.sub \in dirty
    /\ players[op.sub.c] # {}
    /\ players[op.sub.c] # RosterView(playersColl)

\* C17: where no profile is edited, every user whose run of
\* ensureAdminAndSeed has written its profile has a document of that userId
\* in the store, and every profile a roster listener has delivered to a
\* client has jersey number 99, a name that is not empty, the role
\* "New Recruit", the userId of a user whose run wrote a profile, and as id
\* the identifier of a stored document of that userId.
C17_FirstProfileAsDelivered ==
    LET Creators ==
            {e.u : e \in {x \in seedLog : x.outcome \in {"joined", "seeded"}}}
              \cup UNION {{r.u : r \in {x \in seedRuns[c] : x.pc = "probe"}} :
                             c \in Clients}
    IN  /\ \A u \in Creators : \E d \in playersColl : d.userId = u
        /\ \A c \in Clients : \A p \in players[c] :
              /\ p.jerseyNumber = 99
              /\ p.name # <<>>
              /\ p.role = "New Recruit"
              /\ p.userId \in Creators \cup {e.u : e \in seedLog}
              /\ \E d \in playersColl : d.docId = p.id /\ d.userId = p.userId

\* A roster listener has just delivered the profiles of two users to a client.
C17_Witness ==
    /\ op.kind = "rosterSnapshot"
    /\ \E p \in players[op.c] : p.userId = userId[op.c]
    /\ \E p \in players[op.c] : p.userId # userId[op.c]

\* C18: while the write of a profile edit is on its way and the store has
\* not answered, the client's copy of the selected profile already has the
\* fields written.
C18_CopyUpdatedBeforeAnswer ==
    \A c \in Clients : \A e \in pending[c] :
        (e.comp = "PlayerDetail" /\ e.mounted)
            => \A k \in DOMAIN e.fields : selectedPlayer[c][k] = e.fields[k]

\* C19: the step of a run of ensureAdminAndSeed that makes its query while
\* the store holds a profile of the run's user ends the run, and writes
\* neither a profile nor the settings document.
C19_OwnerWritesNothing ==
    [][ \A c \in Clients : \A r \in seedRuns[c] :
          ( /\ r.pc = "query" /\ r \notin seedRuns'[c]
            /\ {d \in playersColl : d.userId = r.u} # {} )
          => /\ seedRuns'[c] = seedRuns[c] \ {r}
             /\ op'.kind = "seedDone" /\ op'.c = c /\ op'.u = r.u
             /\ op'.outcome \in {"returned", "caught"}
             /\ playersColl' = playersColl
             /\ hubDoc' = hubDoc ]_vars

\* A run has just returned at its query, for a user whose profile another
\* client of the same user had written.
C19_Witness ==
    /\ op.kind = "seedDone" /\ op.outcome = "returned"
    /\ \E e \in seedLog : e.u = op.u /\ e.c # op.c /\ e.outcome = "joined"
    /\ Cardinality({d \in playersColl : d.userId = op.u}) = 1

\* C20: no step of a run of ensureAdminAndSeed that began when the players
\* collection was not empty writes the settings document, removes or changes
\* a profile, or adds a profile other than one profile of the run's user; no
\* such run ends as the one that seeded.
C20_LateJoinerWritesOwnProfileOnly ==
    [][ /\ \A c \in Clients : \A r \in seedRuns[c] :
              (~r.emptyBefore /\ r \notin seedRuns'[c])
              => /\ hubDoc' = hubDoc
                 /\ playersColl \subseteq playersColl'
                 /\ Cardinality(playersColl' \ playersColl) <= 1
                 /\ \A d \in playersColl' \ playersColl : d.userId = r.u
        /\ (op'.kind = "seedDone" /\ ~op'.emptyBefore)
              => op'.outcome # "seeded" ]_vars

\* A run that began with another user's profile in the collection has just
\* ended, having written the profile of its own user.
C20_Witness ==
    /\ op.kind = "seedDone" /\ ~op.emptyBefore /\ op.outcome = "joined"
    /\ \E d \in playersColl : d.userId = op.u
    /\ \E d \in playersColl : d.userId # op.u
    /\ \E e \in seedLog : e.u # op.u /\ e.emptyBefore

\* C8: every write of a profile edit goes to a document whose userId is the
\* identity of the client that issues it and carries no field but name,
\* jerseyNumber and headshotUrl; and no step changes the id, the userId or
\* the role of a document of the players collection, or removes one.
C8_ProfileWritesOwnFieldsOnly ==
    [][ /\ (op'.kind \in {"jersey", "name", "photo"} /\ op'.writes # <<>>)
           => \A i \in 1..Len(op'.writes) :
                 /\ \E d \in playersColl : d.docId = op'.writes[i].docId
                 /\ \A d \in playersColl :
                       d.docId = op'.writes[i].docId
                           => d.userId = userId[op'.c]
                 /\ DOMAIN op'.writes[i].fields
                       \subseteq {"name", "jerseyNumber", "headshotUrl"}
        /\ \A d \in playersColl : \E e \in playersColl' :
              /\ e.docId = d.docId /\ e.id = d.id
              /\ e.userId = d.userId /\ e.role = d.role ]_vars

\* C8, its case: with two profiles in the collection, a client's new name
\* has been written to the profile of its own user.
C8_Witness ==
    /\ op.kind = "name" /\ Len(op.writes) = 1 /\ op.writes[1].ok
    /\ Cardinality({d.userId : d \in playersColl}) = 2
    /\ \E d \in playersColl :
          /\ d.docId = op.writes[1].docId /\ d.userId = userId[op.c]
          /\ d.name = <<"A","l">> /\ d.role = "New Recruit"

\* ----------------------------------------------- settings (SpecAdmin)
\* C3: a settings document that exists has at least one administrator,
\* whatever additions and removals the administrator panels have issued.
C3_AdminIdsNeverEmpty ==
    \A data \in hubDoc : AdminIdsOf(data) # <<>>

\* C11: an addAdmin(id) that the store has applied leaves the administrator
\* list holding what it held and id, once; it leaves the list as it was when
\* id was in it (a second addAdmin of the same id), and applying it once more
\* would change nothing.
C11_AddAdminIdempotent ==
    [][ (op'.kind = "addAdmin" /\ op'.writes # <<>> /\ op'.writes[1].ok) =>
          \A before \in hubDoc, after \in hubDoc' :
             LET id == op'.writes[1].id
                 was == AdminIdsOf(before)
                 now == AdminIdsOf(after)
             IN  /\ Range(now) = Range(was) \cup {id}
                 /\ Cardinality({i \in 1..Len(now) : now[i] = id}) = 1
                 /\ (id \in Range(was)) => (after = before)
                 /\ ApplyArrayUnion(hubDoc', id) = hubDoc' ]_vars

\* C11, its case: an id was added a second time, from a panel that did not
\* show it yet, and the document stayed as it was.
C11_Witness ==
    /\ op.kind = "addAdmin" /\ op.writes # <<>>
    /\ op.writes[1].ok /\ ~op.writes[1].changed
    /\ \E data \in hubDoc : Includes(AdminIdsOf(data), op.writes[1].id)

\* C12: a removeAdmin(id) that the store has applied takes id, and nothing
\* else, out of the administrator list, the others keeping their order, and
\* changes no other field; with id not in the list it leaves the document as
\* it was.
C12_RemoveAdminExact ==
    [][ (op'.kind = "removeAdmin" /\ op'.writes # <<>> /\ op'.writes[1].ok) =>
          \A before \in hubDoc, after \in hubDoc' :
             LET id == op'.writes[1].id
                 was == AdminIdsOf(before)
                 Other(x) == x # id
             IN  /\ after = MergeFields(before,
                              [admin_user_ids |-> SelectSeq(was, Other)])
                 /\ (id \notin Range(was)) => (after = before) ]_vars

\* C12, its case: an id that another panel had removed already was removed
\* again, and the administrators that were left stayed.
C12_Witness ==
    /\ op.kind = "removeAdmin" /\ op.writes # <<>>
    /\ op.writes[1].ok /\ ~op.writes[1].changed
    /\ \E data \in hubDoc :
          /\ ~Includes(AdminIdsOf(data), op.writes[1].id)
          /\ AdminIdsOf(data) # <<>>

\* C21: a click on a remove button of the administrator list never asks the
\* store to remove the id that is the clicking client's own userId.
C21_NoSelfRemoval ==
    (op.kind = "removeAdmin")
        => /\ op.input # userId[op.c]
           /\ op.by = userId[op.c]
           /\ \A i \in 1..Len(op.writes) : op.writes[i].id # userId[op.c]

\* An administrator whose list shows its own id and another has just had the
\* other removed by the store.
C21_Witness ==
    /\ op.kind = "removeAdmin" /\ op.writes # <<>> /\ op.writes[1].ok
    /\ Includes(adminIds[op.c], userId[op.c])
    /\ Includes(adminIds[op.c], op.writes[1].id)

\* C22: when the store applies the addAdmin writes of two different clients
\* one right after the other, the administrator list then holds exactly the
\* ids it held before the first of them and the two ids added, whatever the
\* two clients' lists showed.
C22_ConcurrentAddsBothKept ==
    [][ ( /\ op.kind = "addAdmin" /\ op.writes # <<>> /\ op.writes[1].ok
          /\ op'.kind = "addAdmin" /\ op'.writes # <<>> /\ op'.writes[1].ok
          /\ op'.c # op.c )
        => \A after \in hubDoc' :
              /\ Range(AdminIdsOf(after))
                   = Range(op.writes[1].was)
                       \cup {op.writes[1].id, op'.writes[1].id}
              /\ op'.writes[1].was = AdminIdsOf(HubFields(hubDoc)) ]_vars

\* An administrator has just added an id while the store's list held another
\* id, added since, that neither its own list nor the list of the other
\* administrator, a different user, shows yet.
C22_Witness ==
    /\ op.kind = "addAdmin" /\ op.writes # <<>> /\ op.writes[1].ok
    /\ op.writes[1].changed
    /\ \E x \in Range(op.writes[1].was) : \E c2 \in Clients \ {op.c} :
          /\ x # op.writes[1].id
          /\ isAdmin(c2) /\ userId[c2] # userId[op.c]
          /\ ~Includes(adminIds[op.c], x) /\ ~Includes(adminIds[c2], x)
          /\ \A data \in hubDoc :
                {x, op.writes[1].id} \subseteq Range(AdminIdsOf(data))

\* C23: a message save that the store applies writes the trimmed text, not
\* empty, the time and the saving client's userId as lastEditor, and leaves
\* the administrator list and every other field of the settings document as
\* they were; a save of a text that is empty when trimmed writes nothing; an
\* administrator added or removed leaves every field but the administrator
\* list as it was; and when a message save and an administrator change are
\* applied one right after the other, in either order, the document has the
\* message of the one and the list of the other.
C23_SettingsWritesKeepOtherFields ==
  [][
    LET Before == HubFields(hubDoc)
        Applied(o) == o.writes # <<>> /\ o.writes[1].ok
        IsSave(o) == o.kind = "saveMessage"
        IsAdminOp(o) == o.kind \in {"addAdmin", "removeAdmin"}
        MsgFields == {"coachsMessage", "timestamp", "lastEditor"}
    IN  /\ (IsSave(op') /\ Applied(op'))
            => \A after \in hubDoc' :
                 LET f == op'.writes[1].fields
                 IN  /\ DOMAIN f = MsgFields
                     /\ f.coachsMessage = Trim(op'.input)
                     /\ f.coachsMessage # <<>>
                     /\ f.lastEditor = userId[op'.c]
                     /\ DOMAIN after = DOMAIN Before \cup MsgFields
                     /\ \A k \in MsgFields : after[k] = f[k]
                     /\ \A k \in DOMAIN Before \ MsgFields : after[k] = Before[k]
                     /\ AdminIdsOf(after) = AdminIdsOf(Before)
        /\ (IsSave(op') /\ Trim(op'.input) = <<>>)
            => op'.writes = <<>> /\ hubDoc' = hubDoc
        /\ IsAdminOp(op')
            => /\ (hubDoc = {}) <=> (hubDoc' = {})
               /\ \A after \in hubDoc' :
                    /\ DOMAIN after = DOMAIN Before \cup {ADMIN_IDS_FIELD}
                    /\ \A k \in DOMAIN Before \ {ADMIN_IDS_FIELD} :
                          after[k] = Before[k]
        /\ (IsSave(op) /\ Applied(op) /\ op'.kind = "addAdmin" /\ Applied(op'))
            => \A after \in hubDoc' :
                 /\ after.coachsMessage = op.writes[1].fields.coachsMessage
                 /\ after.lastEditor = op.writes[1].fields.lastEditor
                 /\ Includes(AdminIdsOf(after), op'.writes[1].id)
        /\ (IsSave(op) /\ Applied(op) /\ op'.kind = "removeAdmin" /\ Applied(op'))
            => \A after \in hubDoc' :
                 /\ after.coachsMessage = op.writes[1].fields.coachsMessage
                 /\ ~Includes(AdminIdsOf(after), op'.writes[1].id)
        /\ (IsAdminOp(op) /\ Applied(op) /\ IsSave(op') /\ Applied(op'))
            => \A after \in hubDoc' :
                 /\ after.coachsMessage = op'.writes[1].fields.coachsMessage
                 /\ Includes(AdminIdsOf(after), op.writes[1].id)
                       <=> (op.kind = "addAdmin")
  ]_vars

\* A message save has just been applied to a settings document whose
\* administrator list was changed since the saving client last saw it.
C23_Witness ==
    /\ op.kind = "saveMessage" /\ op.writes # <<>> /\ op.writes[1].ok
    /\ \A data \in hubDoc :
          /\ data.lastEditor = userId[op.c]
          /\ data.coachsMessage = <<"G", "o">>
          /\ AdminIdsOf(data) # adminIds[op.c]
          /\ Len(AdminIdsOf(data)) >= 2
    /\ hubDoc # {}

\* C24: each delivery to a roster listener makes its client's roster the
\* profiles of all stored documents and leaves the client's administrator
\* list and dashboard data as they were, each delivery to a settings listener
\* makes these two what the stored settings document gives and leaves the
\* roster as it was; and when every owed snapshot is delivered in the end,
\* then from some moment on every client with listeners has a roster equal
\* to the profiles of the store and an administrator list equal to the
\* store's.
C24_ViewsAgree ==
    \A s \in subs :
        /\ s.kind = "roster"
             => players[s.c] = {SnapshotPlayer(d) : d \in playersColl}
        /\ s.kind = "hub"
             => /\ adminIds[s.c] = AdminIdsOf(HubFields(hubDoc))
                /\ hubData[s.c] = IF hubDoc = {} THEN INITIAL_HUB_DATA
                                  ELSE HubFields(hubDoc)

C24_ViewsConverge ==
    /\ [][ /\ op'.kind = "rosterSnapshot"
              => /\ players'[op'.c] = {SnapshotPlayer(d) : d \in playersColl}
                 /\ \A c \in Clients \ {op'.c} : players'[c] = players[c]
                 /\ adminIds' = adminIds /\ hubData' = hubData
                 /\ playersColl' = playersColl /\ hubDoc' = hubDoc
           /\ op'.kind = "hubSnapshot"
              => /\ adminIds'[op'.c] = AdminIdsOf(HubFields(hubDoc))
                 /\ hubData'[op'.c] = IF hubDoc = {} THEN INITIAL_HUB_DATA
                                      ELSE HubFields(hubDoc)
                 /\ \A c \in Clients \ {op'.c} :
                       adminIds'[c] = adminIds[c] /\ hubData'[c] = hubData[c]
                 /\ players' = players
                 /\ playersColl' = playersColl /\ hubDoc' = hubDoc ]_vars
    /\ <>[]C24_ViewsAgree

\* Two clients of different users, both with listeners and all snapshots
\* delivered, each show both profiles of the store and the store's
\* administrator list.
C24_Witness ==
    /\ \A c \in Clients : {s.kind : s \in {t \in subs : t.c = c}} = {"roster", "hub"}
    /\ dirty = {} /\ \A c \in Clients : seedRuns[c] = {}
    /\ Cardinality({d.userId : d \in playersColl}) = 2
    /\ hubDoc # {}
    /\ C24_ViewsAgree

\* C9: a message save that the store has applied was issued by an identity
\* that the document's administrator list holds at that moment.
C9_MessageWriterIsAdmin ==
    (op.kind = "saveMessage" /\ op.writes # <<>> /\ op.writes[1].ok) =>
        \E data \in hubDoc : Includes(AdminIdsOf(data), op.by)
====
